---- MODULE Spec2Model ----
(***************************************************************************)
(* Model of FormatTIFFgeneric.py: the detection predicates (understand) of *)
(* the generic TIFF format class and its six detector specialisations, the *)
(* dummy scan derived from the file name, and the dummy detector stubs.    *)
(*                                                                         *)
(* Two specifications:                                                     *)
(*   Spec       - detection: a candidate file, the process environment and *)
(*                the availability of the tifffile codec are drawn in      *)
(*                Init; each understand() is one action.                   *)
(*   SpecFormat - a constructed format instance (class, image file name);  *)
(*                _scan() and _detector() are the actions.                 *)
(***************************************************************************)
EXTENDS Integers, Sequences, FiniteSets, TLC

VARIABLES
    tifffile,     \* TRUE iff "import tifffile" succeeded (lines 12-15)
    environ,      \* os.environ restricted to the two gate variables
    image,        \* what tifffile.TiffFile(image_file) finds for the candidate file
    called,       \* the class whose understand() ran last ("none" before any call)
    ret,          \* its outcome: "True", "False" or the name of the escaping exception
    handle,       \* the container handle of that call: "none", "open" or "closed"
    cls,          \* SpecFormat: the class of the format instance
    image_file,   \* SpecFormat: self._image_file, a sequence of characters
    scan,         \* SpecFormat: <<>> or <<the arguments _scan() gives make_scan>>
    detector      \* SpecFormat: <<>> or <<the arguments _detector() gives simple()>>

vars == <<tifffile, environ, image, called, ret, handle, cls, image_file, scan, detector>>

detectVars == <<tifffile, environ, image, called, ret, handle>>
formatVars == <<cls, image_file, scan, detector>>

(***************************************************************************)
(* Bounds of the model.                                                    *)
(***************************************************************************)
MaxPages == 2
MaxSeries == 2
MaxLen == 3

(***************************************************************************)
(* The classes.                                                            *)
(***************************************************************************)
Base == "FormatTIFFgeneric"
Merlin == "FormatTIFFgeneric_Merlin"
ASI == "FormatTIFFgeneric_ASI"
FEI == "FormatTIFFgeneric_FEI_Tecnai_G2"
Medipix == "FormatTIFFgeneric_Medipix"
UED == "FormatTIFF_UED"
UED_BNL == "FormatTIFF_UED_BNL"

Specialised == {Merlin, ASI, FEI, Medipix, UED, UED_BNL}
Classes == {Base} \cup Specialised

(***************************************************************************)
(* The inputs of detection.                                                *)
(***************************************************************************)
EnvNames == {"QD_MERLIN_TIFF", "UED_BNL_TIFF"}
EnvValues == {"", "1"}
\* every environment: each gate variable unset, set to "" or set to "1"
Environs == UNION {[S -> EnvValues] : S \in SUBSET EnvNames}

\* page.shape values: the five shapes the classes test for, a transposed one
\* and a three-dimensional one (an RGB page)
Shapes == {<<512, 512>>, <<516, 516>>, <<1024, 1024>>, <<514, 514>>,
           <<1300, 1340>>, <<1340, 1300>>, <<512, 512, 3>>}

\* Strings that are searched for a substring are sequences of text pieces.
TimepixNeedle == <<"ImageCameraName: ", "timepix">>
VeletaNeedle == <<"Veleta">>

\* page.tags restricted to tag 270: <<>> when the tag is absent, else <<value>>
Tag270s == {<<>>,
            << <<"ImageCameraType: 1;", "ImageCameraName: ", "timepix", ";">> >>,
            << <<"ImageCameraName: ", "medipix", "timepix">> >>}

\* page.tags restricted to tag 33560: <<>> when absent, else <<value>>, where
\* value is the dict tifffile builds; cameraname is <<>> when the dict has no
\* such key, else <<string>>
Tag33560s == {<<>>,
              << [cameraname |-> <<>>] >>,
              << [cameraname |-> << <<"Olympus ", "Veleta", " 2k">> >>] >>,
              << [cameraname |-> << <<"Morada">> >>] >>}

Pages0 == [shape : Shapes, tag270 : Tag270s, tag33560 : Tag33560s]
NoPage == [shape |-> <<512, 512>>, tag270 |-> <<>>, tag33560 |-> <<>>]

\* open: what the TiffFile constructor does: "ok", the codec's own
\* TiffFileError (not a TIFF file), or an OSError of the underlying open()
\* (missing or unreadable file). npages = len(tif.pages), nseries =
\* len(tif.series), page0 = tif.pages[0] when there is one.
Images ==
    {[open |-> e, npages |-> 0, nseries |-> 0, page0 |-> NoPage] :
        e \in {"ok", "TiffFileError", "OSError"}}
    \cup
    [open : {"ok"}, npages : 1..MaxPages, nseries : 0..MaxSeries, page0 : Pages0]

Exceptions == {"AttributeError", "TiffFileError", "OSError", "AssertionError",
               "IndexError", "KeyError"}

(***************************************************************************)
(* Python and tifffile primitives the predicates use.                      *)
(***************************************************************************)
\* needle in hay, for strings
Contains(needle, hay) ==
    \E i \in 0..(Len(hay) - Len(needle)) :
        SubSeq(hay, i + 1, i + Len(needle)) = needle

\* getenv_is_None written as a truth test: not os.getenv(name)
getenv_is_None_Truthy(env, name) == name \notin DOMAIN env \/ env[name] = ""

\* os.getenv(name) is None
getenv_is_None(env, name) == name \notin DOMAIN env

\* tifffile.TiffFile(image_file): "ok" or the exception it raises; with the
\* codec missing, tifffile is None and the attribute lookup fails
TiffFile(f, tf) == IF ~tf THEN "AttributeError" ELSE f.open

\* tif.pages[0]: "ok" or the lookup error
pages_getitem_0(f) == IF f.npages >= 1 THEN "ok" ELSE "IndexError"

\* a call's outcome
Outcome(r, h) == [ret |-> r, handle |-> h]

\* WithTiffFile written without the context manager: tif.close() is reached
\* only when the block runs to its end or returns, not when it raises
WithTiffFile_CloseOnReturnOnly(f, tf, body) ==
    IF TiffFile(f, tf) # "ok"
    THEN Outcome(TiffFile(f, tf), "none")
    ELSE Outcome(body, IF body \in Exceptions THEN "open" ELSE "closed")

\* with tifffile.TiffFile(image_file) as tif: <body>
\* body is the value the block returns ("True"/"False") or the exception it
\* raises; the context manager closes the handle however the block is left
WithTiffFile(f, tf, body) ==
    IF TiffFile(f, tf) # "ok"
    THEN Outcome(TiffFile(f, tf), "none")
    ELSE Outcome(body, "closed")

(***************************************************************************)
(* The detection predicates.                                               *)
(***************************************************************************)
\* BaseTry without the assertion on the series
BaseTry_PagesOnly(f) ==
    IF f.npages # 1 THEN "AssertionError"
    ELSE pages_getitem_0(f)

\* FormatTIFFgeneric.understand, the try block of lines 37-40
BaseTry(f) ==
    IF f.npages # 1 THEN "AssertionError"
    ELSE IF f.nseries # 1 THEN "AssertionError"
    ELSE pages_getitem_0(f)

\* FormatTIFFgeneric.understand
understand_Base(f, env, tf) ==
    IF ~tf THEN Outcome("False", "none")
    ELSE IF TiffFile(f, tf) = "TiffFileError" THEN Outcome("False", "none")
    ELSE IF TiffFile(f, tf) # "ok" THEN Outcome(TiffFile(f, tf), "none")
    ELSE IF BaseTry(f) \in {"AssertionError", "KeyError"}
         THEN Outcome("False", "closed")
    ELSE IF BaseTry(f) # "ok" THEN Outcome(BaseTry(f), "closed")
    ELSE Outcome("True", "closed")

\* the body shared by the shape-only predicates: page = tif.pages[0];
\* if page.shape != shape: return False; return True
ShapeBody(f, shape) ==
    IF pages_getitem_0(f) # "ok" THEN pages_getitem_0(f)
    ELSE IF f.page0.shape # shape THEN "False"
    ELSE "True"

\* FormatTIFFgeneric_Merlin.understand
understand_Merlin(f, env, tf) ==
    IF getenv_is_None(env, "QD_MERLIN_TIFF") THEN Outcome("False", "none")
    ELSE WithTiffFile(f, tf, ShapeBody(f, <<512, 512>>))

\* ASIBody with the tag looked up before the shape is tested
ASIBody_TagFirst(f) ==
    IF pages_getitem_0(f) # "ok" THEN pages_getitem_0(f)
    ELSE IF f.page0.tag270 = <<>> THEN "KeyError"
    ELSE IF f.page0.shape # <<516, 516>> THEN "False"
    ELSE IF ~Contains(TimepixNeedle, f.page0.tag270[1]) THEN "False"
    ELSE "True"

\* FormatTIFFgeneric_ASI.understand, the with block
ASIBody(f) ==
    IF pages_getitem_0(f) # "ok" THEN pages_getitem_0(f)
    ELSE IF f.page0.shape # <<516, 516>> THEN "False"
    ELSE IF f.page0.tag270 = <<>> THEN "KeyError"
    ELSE IF ~Contains(TimepixNeedle, f.page0.tag270[1]) THEN "False"
    ELSE "True"

\* FormatTIFFgeneric_ASI.understand
understand_ASI(f, env, tf) == WithTiffFile(f, tf, ASIBody(f))

\* FormatTIFFgeneric_FEI_Tecnai_G2.understand, the with block
FEIBody(f) ==
    IF pages_getitem_0(f) # "ok" THEN pages_getitem_0(f)
    ELSE IF f.page0.shape # <<1024, 1024>> THEN "False"
    ELSE IF f.page0.tag33560 = <<>> THEN "KeyError"
    ELSE IF f.page0.tag33560[1].cameraname = <<>> THEN "KeyError"
    ELSE IF ~Contains(VeletaNeedle, f.page0.tag33560[1].cameraname[1]) THEN "False"
    ELSE "True"

\* FormatTIFFgeneric_FEI_Tecnai_G2.understand
understand_FEI(f, env, tf) == WithTiffFile(f, tf, FEIBody(f))

\* understand_Medipix testing for the Merlin shape
understand_Medipix_512(f, env, tf) == WithTiffFile(f, tf, ShapeBody(f, <<512, 512>>))

\* FormatTIFFgeneric_Medipix.understand
understand_Medipix(f, env, tf) == WithTiffFile(f, tf, ShapeBody(f, <<514, 514>>))

\* FormatTIFF_UED.understand
understand_UED(f, env, tf) == WithTiffFile(f, tf, ShapeBody(f, <<1300, 1340>>))

\* FormatTIFF_UED_BNL.understand
understand_UED_BNL(f, env, tf) ==
    IF getenv_is_None(env, "UED_BNL_TIFF") THEN Outcome("False", "none")
    ELSE WithTiffFile(f, tf, ShapeBody(f, <<512, 512>>))

\* cls.understand(image_file), by class
understand(c, f, env, tf) ==
    CASE c = Base -> understand_Base(f, env, tf)
      [] c = Merlin -> understand_Merlin(f, env, tf)
      [] c = ASI -> understand_ASI(f, env, tf)
      [] c = FEI -> understand_FEI(f, env, tf)
      [] c = Medipix -> understand_Medipix(f, env, tf)
      [] c = UED -> understand_UED(f, env, tf)
      [] c = UED_BNL -> understand_UED_BNL(f, env, tf)

(***************************************************************************)
(* Detection: the state machine.                                           *)
(***************************************************************************)
NoFormat == [cls |-> Base, image_file |-> <<>>]

InitDetect ==
    /\ tifffile \in BOOLEAN
    /\ environ \in Environs
    /\ image \in Images
    /\ called = "none"
    /\ ret = "none"
    /\ handle = "none"
    /\ cls = NoFormat.cls
    /\ image_file = NoFormat.image_file
    /\ scan = <<>>
    /\ detector = <<>>

\* Each action is one call of a class's understand(image_file), from entry
\* to exit: it records the class, the outcome and the state of the handle.
FormatTIFFgeneric_understand ==
    /\ called' = Base
    /\ ret' = understand_Base(image, environ, tifffile).ret
    /\ handle' = understand_Base(image, environ, tifffile).handle
    /\ UNCHANGED <<tifffile, environ, image, formatVars>>

FormatTIFFgeneric_Merlin_understand ==
    /\ called' = Merlin
    /\ ret' = understand_Merlin(image, environ, tifffile).ret
    /\ handle' = understand_Merlin(image, environ, tifffile).handle
    /\ UNCHANGED <<tifffile, environ, image, formatVars>>

FormatTIFFgeneric_ASI_understand ==
    /\ called' = ASI
    /\ ret' = understand_ASI(image, environ, tifffile).ret
    /\ handle' = understand_ASI(image, environ, tifffile).handle
    /\ UNCHANGED <<tifffile, environ, image, formatVars>>

FormatTIFFgeneric_FEI_Tecnai_G2_understand ==
    /\ called' = FEI
    /\ ret' = understand_FEI(image, environ, tifffile).ret
    /\ handle' = understand_FEI(image, environ, tifffile).handle
    /\ UNCHANGED <<tifffile, environ, image, formatVars>>

FormatTIFFgeneric_Medipix_understand ==
    /\ called' = Medipix
    /\ ret' = understand_Medipix(image, environ, tifffile).ret
    /\ handle' = understand_Medipix(image, environ, tifffile).handle
    /\ UNCHANGED <<tifffile, environ, image, formatVars>>

FormatTIFF_UED_understand ==
    /\ called' = UED
    /\ ret' = understand_UED(image, environ, tifffile).ret
    /\ handle' = understand_UED(image, environ, tifffile).handle
    /\ UNCHANGED <<tifffile, environ, image, formatVars>>

FormatTIFF_UED_BNL_understand ==
    /\ called' = UED_BNL
    /\ ret' = understand_UED_BNL(image, environ, tifffile).ret
    /\ handle' = understand_UED_BNL(image, environ, tifffile).handle
    /\ UNCHANGED <<tifffile, environ, image, formatVars>>

Next ==
    \/ FormatTIFFgeneric_understand
    \/ FormatTIFFgeneric_Merlin_understand
    \/ FormatTIFFgeneric_ASI_understand
    \/ FormatTIFFgeneric_FEI_Tecnai_G2_understand
    \/ FormatTIFFgeneric_Medipix_understand
    \/ FormatTIFF_UED_understand
    \/ FormatTIFF_UED_BNL_understand

Spec == InitDetect /\ [][Next]_vars

(***************************************************************************)
(* The format instance: file names are sequences of one-character strings. *)
(***************************************************************************)
Digits == {"0", "1", "2", "3", "4", "5", "6", "7", "8", "9"}
\* the characters file names are drawn from: a letter, the separators the
\* code splits at, two digits and a newline
Alphabet == {"a", "_", ".", "/", "0", "2", "\n"}

RECURSIVE StringsOfLen(_)
StringsOfLen(n) ==
    IF n = 0 THEN {<<>>}
    ELSE {Append(t, c) : t \in StringsOfLen(n - 1), c \in Alphabet}

\* the two file names of the documented examples, and names with a directory,
\* several underscores, several dots
ExampleNames ==
    {<<"f", "o", "o", "_", "0", "2", "3", ".", "t", "i", "f">>,
     <<"f", "o", "o", "_", "b", "a", "r", ".", "t", "i", "f">>,
     <<"d", "_", "1", "/", "a", "_", "b", "_", "0", "0", "7", ".", "t", "i", "f">>,
     <<"x", "_", "1", "2", ".", "5", ".", "t", "i", "f">>,
     <<"i", "m", "g", "9", "0", ".", "t", "i", "f", "f">>}

FileNames == UNION {StringsOfLen(n) : n \in 0..MaxLen} \cup ExampleNames

\* s[i:] and s[:i] with 0 <= i <= len(s)
Drop(s, i) == SubSeq(s, i + 1, Len(s))
Take(s, i) == SubSeq(s, 1, i)

\* s.rfind(c) + 1: the number of characters up to and including the last c
rfind1(s, c) ==
    IF \E i \in 1..Len(s) : s[i] = c
    THEN CHOOSE i \in 1..Len(s) : s[i] = c /\ \A j \in (i + 1)..Len(s) : s[j] # c
    ELSE 0

\* os.path.split(p)[-1] (posixpath): i = p.rfind("/") + 1; tail = p[i:]
os_path_split_tail(p) == Drop(p, rfind1(p, "/"))

\* s.split(c): the list of the pieces of s between the occurrences of c
RECURSIVE str_split(_, _)
str_split(s, c) ==
    IF \E i \in 1..Len(s) : s[i] = c
    THEN LET i == CHOOSE i \in 1..Len(s) : s[i] = c /\ \A j \in 1..(i - 1) : s[j] # c
         IN <<Take(s, i - 1)>> \o str_split(Drop(s, i), c)
    ELSE <<s>>

\* list[-1] and list[0]
last(l) == l[Len(l)]
first(l) == l[1]

\* the positions e at which "$" matches in s (as offsets, 0..len): the end
\* of the string, and just before a newline that ends the string
DollarMatches(s, e) ==
    \/ e = Len(s)
    \/ e = Len(s) - 1 /\ s[Len(s)] = "\n"

\* re.match(".*?([0-9]+)$", s): <<>> when there is no match (None), else
\* <<group(1)>>. The match starts at 0; ".*?" takes i characters, none of
\* them a newline, the fewest possible; "([0-9]+)" takes s[i:e], at least
\* one digit; "$" matches at e.
IsMatch(s, i, e) ==
    /\ i < e
    /\ \A k \in 1..i : s[k] # "\n"
    /\ \A k \in (i + 1)..e : s[k] \in Digits
    /\ DollarMatches(s, e)

re_match(s) ==
    IF \E i \in 0..Len(s), e \in 0..Len(s) : IsMatch(s, i, e)
    THEN LET i == CHOOSE i \in 0..Len(s) :
                    /\ \E e \in 0..Len(s) : IsMatch(s, i, e)
                    /\ \A j \in 0..(i - 1) : \A e \in 0..Len(s) : ~IsMatch(s, j, e)
             e == CHOOSE e \in 0..Len(s) : IsMatch(s, i, e)
         IN <<SubSeq(s, i + 1, e)>>
    ELSE <<>>

DigitValue(c) ==
    CASE c = "0" -> 0 [] c = "1" -> 1 [] c = "2" -> 2 [] c = "3" -> 3
      [] c = "4" -> 4 [] c = "5" -> 5 [] c = "6" -> 6 [] c = "7" -> 7
      [] c = "8" -> 8 [] c = "9" -> 9

\* int(d) for a non-empty string of decimal digits
RECURSIVE int(_)
int(d) ==
    IF Len(d) = 0 THEN 0
    ELSE 10 * int(Take(d, Len(d) - 1)) + DigitValue(d[Len(d)])

\* scan_index with the extension removed as os.path.splitext would: the
\* name is cut at its last "." instead of its first
scan_index_CutAtLastDot(path) ==
    LET fname == os_path_split_tail(path)
        t == last(str_split(fname, "_"))
        s == IF rfind1(t, ".") = 0 THEN t ELSE Take(t, rfind1(t, ".") - 1)
    IN IF re_match(s) = <<>> THEN 1 ELSE int(re_match(s)[1])

\* lines 57-63: the image number taken from the file name
scan_index(path) ==
    LET fname == os_path_split_tail(path)
        s == first(str_split(last(str_split(fname, "_")), "."))
    IN IF re_match(s) = <<>> THEN 1 ELSE int(re_match(s)[1])

\* angles are held in tenths of a degree: 0.5 degree is 5 tenths
HalfDegree == 5

\* FormatTIFFgeneric._scan: the arguments given to make_scan
make_scan_args(path) ==
    LET index == scan_index(path)
        exposure_times == 0
        frame == index - 1
        oscillation == <<frame * HalfDegree, HalfDegree>>
        epochs == <<0>>
    IN [image_range |-> <<index, index>>,
        exposure_times |-> exposure_times,
        oscillation |-> oscillation,
        epochs |-> epochs,
        deg |-> TRUE]

\* dyn_range of each class's _detector
dyn_range(c) ==
    CASE c = Merlin -> 12
      [] c = ASI -> 20
      [] c = FEI -> 14
      [] c = Medipix -> 16
      [] c = UED -> 20
      [] c = UED_BNL -> 20

\* image_size of each class's _detector
image_size(c) ==
    CASE c = Merlin -> <<512, 512>>
      [] c = ASI -> <<516, 516>>
      [] c = FEI -> <<1024, 1024>>
      [] c = Medipix -> <<514, 514>>
      [] c = UED -> <<1300, 1340>>
      [] c = UED_BNL -> <<512, 512>>

\* pixel_size of each class's _detector, in micrometres (0.055 mm = 55)
pixel_size(c) ==
    CASE c = Merlin -> <<55, 55>>
      [] c = ASI -> <<55, 55>>
      [] c = FEI -> <<26, 26>>
      [] c = Medipix -> <<55, 55>>
      [] c = UED -> <<60, 60>>
      [] c = UED_BNL -> <<16, 16>>

\* trusted_range computed in a 16-bit unsigned integer
trusted_range_Wrap16(d) == <<-1, ((2 ^ d) % 65536) - 1>>

\* trusted_range = (-1, 2 ** dyn_range - 1); Python integers do not wrap
trusted_range(d) == <<-1, 2 ^ d - 1>>

\* _detector of each class: the arguments given to _detector_factory.simple;
\* beam_centre = [(p * i) / 2 ...] is held doubled, in micrometres
simple_args(c) ==
    [sensor |-> IF c = UED_BNL THEN "CCD" ELSE "PAD",
     distance |-> IF c = UED_BNL THEN 3480 ELSE 2440,
     beam_centre_x2 |-> <<pixel_size(c)[1] * image_size(c)[1],
                          pixel_size(c)[2] * image_size(c)[2]>>,
     fast |-> "+x",
     slow |-> "-y",
     pixel_size |-> pixel_size(c),
     image_size |-> image_size(c),
     trusted_range |-> trusted_range(dyn_range(c))]

NoDetect == [tifffile |-> TRUE, environ |-> <<>>,
             image |-> [open |-> "ok", npages |-> 0, nseries |-> 0, page0 |-> NoPage]]

InitFormat ==
    /\ cls \in Classes
    /\ image_file \in FileNames
    /\ scan = <<>>
    /\ detector = <<>>
    /\ tifffile = NoDetect.tifffile
    /\ environ = NoDetect.environ
    /\ image = NoDetect.image
    /\ called = "none"
    /\ ret = "none"
    /\ handle = "none"

\* self._scan(): defined by FormatTIFFgeneric, inherited by every class
FormatTIFFgeneric_scan ==
    /\ scan' = <<make_scan_args(image_file)>>
    /\ UNCHANGED <<cls, image_file, detector, detectVars>>

\* self._detector(): each specialised class defines its own
FormatTIFFgeneric_Merlin_detector ==
    /\ cls = Merlin
    /\ detector' = <<simple_args(Merlin)>>
    /\ UNCHANGED <<cls, image_file, scan, detectVars>>

FormatTIFFgeneric_ASI_detector ==
    /\ cls = ASI
    /\ detector' = <<simple_args(ASI)>>
    /\ UNCHANGED <<cls, image_file, scan, detectVars>>

FormatTIFFgeneric_FEI_Tecnai_G2_detector ==
    /\ cls = FEI
    /\ detector' = <<simple_args(FEI)>>
    /\ UNCHANGED <<cls, image_file, scan, detectVars>>

FormatTIFFgeneric_Medipix_detector ==
    /\ cls = Medipix
    /\ detector' = <<simple_args(Medipix)>>
    /\ UNCHANGED <<cls, image_file, scan, detectVars>>

FormatTIFF_UED_detector ==
    /\ cls = UED
    /\ detector' = <<simple_args(UED)>>
    /\ UNCHANGED <<cls, image_file, scan, detectVars>>

FormatTIFF_UED_BNL_detector ==
    /\ cls = UED_BNL
    /\ detector' = <<simple_args(UED_BNL)>>
    /\ UNCHANGED <<cls, image_file, scan, detectVars>>

NextFormat ==
    \/ FormatTIFFgeneric_scan
    \/ FormatTIFFgeneric_Merlin_detector
    \/ FormatTIFFgeneric_ASI_detector
    \/ FormatTIFFgeneric_FEI_Tecnai_G2_detector
    \/ FormatTIFFgeneric_Medipix_detector
    \/ FormatTIFF_UED_detector
    \/ FormatTIFF_UED_BNL_detector

SpecFormat == InitFormat /\ [][NextFormat]_vars

(***************************************************************************)
(* Properties of detection (specification Spec).                           *)
(***************************************************************************)
GateOf(c) == IF c = Merlin THEN "QD_MERLIN_TIFF" ELSE "UED_BNL_TIFF"
Gated == {Merlin, UED_BNL}
Opens == tifffile /\ image.open = "ok"
HasFirstPage == Opens /\ image.npages >= 1

\* the call of class c gets as far as opening the container, and opens it
OpensContainer(c) ==
    /\ Opens
    /\ c \in Gated => GateOf(c) \in DOMAIN environ

\* C1: whenever a call of any of the seven predicates has opened a container
\* handle, the handle is closed when the call exits, whether it returns
\* True, returns False or raises; no call exits with its handle open.
C1_HandleClosedOnExit ==
    called # "none" =>
        /\ handle # "open"
        /\ OpensContainer(called) => handle = "closed"

\* C1 witness: the ASI predicate left by the missing-tag KeyError, handle closed
C1_Witness ==
    /\ called = ASI
    /\ ret = "KeyError"
    /\ handle = "closed"

\* C2: with the codec available and a file that opens, the base predicate
\* returns True iff there is exactly one page and exactly one series, and
\* returns False for every other count.
C2_BaseIffOnePageOneSeries ==
    (called = Base /\ Opens) =>
        /\ ret \in {"True", "False"}
        /\ ret = "True" <=> (image.npages = 1 /\ image.nseries = 1)

\* C2 witness: one page in two series, rejected by the base predicate
C2_Witness ==
    /\ called = Base
    /\ Opens
    /\ image.npages = 1
    /\ image.nseries = 2
    /\ ret = "False"

\* C3 as stated: for every file the codec cannot open, whatever the reason,
\* the base predicate returns False and no exception escapes.
C3_BaseFalseOnAnyOpenFailure ==
    (called = Base /\ image.open # "ok") => ret = "False"

\* C4 as stated: whenever a specialised predicate returns True the base
\* predicate returns True for the same file, so a specialised predicate never
\* returns True for a file with more than one page or more than one series.
C4_SpecialisedImpliesBase ==
    (called \in Specialised /\ ret = "True") =>
        /\ understand(Base, image, environ, tifffile).ret = "True"
        /\ image.npages <= 1
        /\ image.nseries <= 1

HasTimepix(v) ==
    \E i \in 1..(Len(v) - 1) : v[i] = "ImageCameraName: " /\ v[i + 1] = "timepix"

\* C6: for ASI on a file that opens and has a first page: any shape other
\* than (516, 516) gives False, whether or not tag 270 is there; (516, 516)
\* with a tag 270 that lacks the substring gives False; True is returned
\* exactly when the shape is (516, 516) and tag 270 is present with the
\* substring.
C6_ASIPredicate ==
    (called = ASI /\ HasFirstPage) =>
        LET p == image.page0 IN
        /\ p.shape # <<516, 516>> => ret = "False"
        /\ (p.shape = <<516, 516>> /\ p.tag270 # <<>> /\ ~HasTimepix(p.tag270[1]))
              => ret = "False"
        /\ ret = "True" <=>
              (p.shape = <<516, 516>> /\ p.tag270 # <<>> /\ HasTimepix(p.tag270[1]))

\* C6 witness: a page of another shape without tag 270, rejected
C6_Witness ==
    /\ called = ASI
    /\ HasFirstPage
    /\ image.page0.shape = <<514, 514>>
    /\ image.page0.tag270 = <<>>
    /\ ret = "False"

\* the one gap C7 allows: ASI or FEI, the first page of the matching shape,
\* the expected tag missing
KnownGap ==
    /\ HasFirstPage
    /\ \/ called = ASI /\ image.page0.shape = <<516, 516>> /\ image.page0.tag270 = <<>>
       \/ called = FEI /\ image.page0.shape = <<1024, 1024>> /\ image.page0.tag33560 = <<>>

\* C7 as stated: every predicate returns a boolean for every file, every
\* environment and with or without the codec; the only exception that
\* escapes is the lookup error of ASI and FEI on a matching shape with the
\* expected tag missing.
C7_PredicatesTotal ==
    called # "none" => (ret \in {"True", "False"} \/ KnownGap)

\* C9 as stated: for every file and every environment at most one of the
\* six specialised predicates returns True.
C9_MutuallyExclusive ==
    (called \in Specialised /\ ret = "True") =>
        \A q \in Specialised \ {called} :
            understand(q, image, environ, tifffile).ret # "True"

\* C9 amended: two specialised predicates return True for the same file
\* only if they are Merlin and UED BNL, both gate variables are set and the
\* first page is (512, 512); otherwise at most one returns True.
C9_ExclusiveButForTheTwoGated ==
    (called \in Specialised /\ ret = "True") =>
        \A q \in Specialised \ {called} :
            understand(q, image, environ, tifffile).ret = "True" =>
                /\ {called, q} = Gated
                /\ DOMAIN environ = EnvNames
                /\ image.page0.shape = <<512, 512>>

\* C9 witness: Merlin recognises a file with only its own gate set
C9_Witness ==
    /\ called = Merlin
    /\ ret = "True"
    /\ DOMAIN environ = {"QD_MERLIN_TIFF"}

(***************************************************************************)
(* Properties of the format instance (specification SpecFormat).           *)
(***************************************************************************)
\* the suffix of s after its last c, all of s when c is not in it
AfterLast(s, c) ==
    CHOOSE t \in {Drop(s, i) : i \in 0..Len(s)} :
        /\ \A k \in 1..Len(t) : t[k] # c
        /\ Len(t) = Len(s) \/ s[Len(s) - Len(t)] = c

\* s without its extension: without its last "." and what follows it
StripExtension(s) ==
    IF \E k \in 1..Len(s) : s[k] = "."
    THEN Take(s, Len(s) - Len(AfterLast(s, ".")) - 1)
    ELSE s

\* the prefix of s before its first ".", all of s when it has none
BeforeFirstDot(s) ==
    CHOOSE t \in {Take(s, i) : i \in 0..Len(s)} :
        /\ \A k \in 1..Len(t) : t[k] # "."
        /\ Len(t) = Len(s) \/ s[Len(t) + 1] = "."

\* the maximal run of decimal digits that ends s
TrailingDigits(s) ==
    CHOOSE t \in {Drop(s, i) : i \in 0..Len(s)} :
        /\ \A k \in 1..Len(t) : t[k] \in Digits
        /\ Len(t) = Len(s) \/ s[Len(s) - Len(t)] \notin Digits

\* the number a string of decimal digits writes
RECURSIVE Pow10(_)
Pow10(n) == IF n = 0 THEN 1 ELSE 10 * Pow10(n - 1)
RECURSIVE DecimalSum(_, _)
DecimalSum(d, i) ==
    IF i > Len(d) THEN 0
    ELSE DigitValue(d[i]) * Pow10(Len(d) - i) + DecimalSum(d, i + 1)

\* the scan the claim describes, for index n
ScanFor(n) ==
    [image_range |-> <<n, n>>,
     exposure_times |-> 0,
     oscillation |-> <<5 * (n - 1), 5>>,
     epochs |-> <<0>>,
     deg |-> TRUE]

IndexOfRun(s) ==
    IF TrailingDigits(s) = <<>> THEN 1 ELSE DecimalSum(TrailingDigits(s), 1)

\* the index as C8 states it
StatedIndex(path) ==
    IndexOfRun(StripExtension(AfterLast(AfterLast(path, "/"), "_")))

\* s without one final newline
ChompNewline(s) ==
    IF Len(s) > 0 /\ s[Len(s)] = "\n" THEN Take(s, Len(s) - 1) ELSE s

\* the index as amended: the name is cut at its first ".", one final newline
\* is ignored, and a newline before the digits leaves the index at 1
AmendedIndex(path) ==
    LET s == ChompNewline(BeforeFirstDot(AfterLast(AfterLast(path, "/"), "_")))
        run == TrailingDigits(s)
    IN IF \E k \in 1..(Len(s) - Len(run)) : s[k] = "\n" THEN 1 ELSE IndexOfRun(s)

Foo023 == <<"f", "o", "o", "_", "0", "2", "3", ".", "t", "i", "f">>
FooBar == <<"f", "o", "o", "_", "b", "a", "r", ".", "t", "i", "f">>

NoNewline(s) == \A k \in 1..Len(s) : s[k] # "\n"

StatedDynRange(c) ==
    CASE c = Merlin -> 12
      [] c = FEI -> 14
      [] c = Medipix -> 16
      [] c \in {ASI, UED, UED_BNL} -> 20

RECURSIVE Doubled(_)
Doubled(n) == IF n = 0 THEN 1 ELSE 2 * Doubled(n - 1)

\* C10: every profile's detector stub has the trusted range (-1, 2^d - 1)
\* for its dynamic range d (Merlin 12, FEI Tecnai G2 14, Medipix 16, ASI, UED
\* and UED BNL 20): 12 gives (-1, 4095), 16 gives (-1, 65535); the lower
\* bound is -1 and the upper bound is the exact integer.
C10_TrustedRange ==
    detector # <<>> =>
        /\ cls \in Specialised
        /\ detector[1].trusted_range = <<-1, Doubled(StatedDynRange(cls)) - 1>>
        /\ cls = Merlin => detector[1].trusted_range = <<-1, 4095>>
        /\ cls = FEI => detector[1].trusted_range = <<-1, 16383>>
        /\ cls = Medipix => detector[1].trusted_range = <<-1, 65535>>
        /\ cls \in {ASI, UED, UED_BNL} => detector[1].trusted_range = <<-1, 1048575>>

\* C10 witness: the Medipix stub, dynamic range 16
C10_Witness ==
    /\ detector # <<>>
    /\ cls = Medipix
    /\ detector[1].trusted_range = <<-1, 65535>>

====
